---- MODULE Spec2Model ----
(***************************************************************************)
(* A model of src/realtime_visualization.py: the Streamlit page that scans *)
(* the DynamoDB table AgricultureMonitoring, normalizes the rows with      *)
(* pandas (fetch_data), and renders the Dashboard and Chat views.          *)
(***************************************************************************)
EXTENDS Integers, Sequences, FiniteSets, TLC

(* ------------------------------ bounds --------------------------------- *)
MaxRecords == 3
MaxPages == 2
MaxItems == 2
MaxTicks == 3
TickStep == 30
MaxHistory == 4

(* ----------------------- values held in a cell -------------------------- *)
\* Every cell value has the same shape so that any two can be compared.
\* kind: "N" a DynamoDB number, "S" a text, "NULL" a DynamoDB null (None),
\*       "NaN" the missing-value marker pandas fills in, "F" a float64 made
\*       by to_numeric, "T" a Timestamp made by to_datetime, "NaT" its
\*       missing marker.
Cell(k, n, s) == [kind |-> k, num |-> n, text |-> s]
Num(n) == Cell("N", n, "")
Text(s) == Cell("S", 0, s)
Null == Cell("NULL", 0, "")
NaN == Cell("NaN", 0, "")
NaT == Cell("NaT", 0, "")
Float(n) == Cell("F", n, "")
Timestamp(n) == Cell("T", n, "")

numeric_cols ==
    {"temperature", "humidity", "soil_moisture",
     "soil_nitrogen", "soil_phosphorus", "soil_potassium"}

SevenFields == numeric_cols \cup {"timestamp"}

\* The texts float() accepts, with the number each denotes.
NumericText == [s \in {"7", "8"} |-> IF s = "7" THEN 7 ELSE 8]

\* The texts the date parser accepts, with the day each denotes.
DateText ==
    [s \in {"2024-01-01T00:00:00", "2024-01-02T00:00:00"} |->
        IF s = "2024-01-01T00:00:00" THEN 1 ELSE 2]

\* pd.to_numeric(errors='coerce') on one value: a number or a numeric text
\* becomes a float, anything else NaN.
ToNumeric(v) ==
    CASE v.kind = "N" -> Float(v.num)
      [] v.kind = "S" /\ v.text \in DOMAIN NumericText -> Float(NumericText[v.text])
      [] OTHER -> NaN

\* pd.to_datetime(errors='coerce') on one value.
ToDatetime(v) ==
    CASE v.kind = "S" /\ v.text \in DOMAIN DateText -> Timestamp(DateText[v.text])
      [] OTHER -> NaT

\* pandas isna(): None, NaN and NaT are missing values.
IsNA(v) == v.kind \in {"NULL", "NaN", "NaT"}

(* ----------------------------- DataFrame -------------------------------- *)
\* A DataFrame is its set of column labels and its rows in order; a row
\* keeps its index label idx (the 0-based position it had in `items`).
EmptyDataFrame == [columns |-> {}, rows |-> <<>>]

EmptyWithColumns == [columns |-> SevenFields, rows |-> <<>>]

\* pd.DataFrame(items): the columns are the union of the records' keys and a
\* key a record lacks is filled with NaN.
DataFrameOf(items) ==
    LET cols == UNION {DOMAIN items[i] : i \in 1..Len(items)}
    IN  [columns |-> cols,
         rows |-> [i \in 1..Len(items) |->
                     [idx |-> i - 1,
                      cells |-> [c \in cols |->
                                   IF c \in DOMAIN items[i] THEN items[i][c] ELSE NaN]]]]

\* df[numeric_cols] = df[numeric_cols].apply(pd.to_numeric, errors='coerce')
ApplyToNumeric(d) ==
    [d EXCEPT !.rows =
        [i \in 1..Len(d.rows) |->
            [d.rows[i] EXCEPT !.cells =
                [c \in d.columns |->
                    IF c \in numeric_cols THEN ToNumeric(d.rows[i].cells[c])
                    ELSE d.rows[i].cells[c]]]]]

\* df['timestamp'] = pd.to_datetime(df['timestamp'], errors='coerce')
ApplyToDatetime(d) ==
    [d EXCEPT !.rows =
        [i \in 1..Len(d.rows) |->
            [d.rows[i] EXCEPT !.cells =
                [c \in d.columns |->
                    IF c = "timestamp" THEN ToDatetime(d.rows[i].cells[c])
                    ELSE d.rows[i].cells[c]]]]]

RowComplete(d, r) == \A c \in d.columns : ~IsNA(r.cells[c])

\* A dropna that looks at the timestamp column only.
DropNaTimestampOnly(d) ==
    [d EXCEPT !.rows = SelectSeq(d.rows, LAMBDA r : ~IsNA(r.cells["timestamp"]))]

\* df.dropna(inplace=True): how='any' over every column of the frame.
DropNa(d) ==
    [d EXCEPT !.rows = SelectSeq(d.rows, LAMBDA r : RowComplete(d, r))]

RowTime(r) == r.cells["timestamp"].num

Perms(n) == {p \in [1..n -> 1..n] : \A i, j \in 1..n : p[i] = p[j] => i = j}

Reorder(d, p) == [d EXCEPT !.rows = [i \in 1..Len(d.rows) |-> d.rows[p[i]]]]

IsSortedByTime(rows) ==
    \A i \in 1..(Len(rows) - 1) : RowTime(rows[i]) <= RowTime(rows[i + 1])

\* A sort_values that leaves the rows as they are.
SortValuesNoop(d) == {d}

\* df.sort_values('timestamp', inplace=True): kind defaults to 'quicksort',
\* which orders by the key and promises nothing about rows with equal keys,
\* so every ordering of the rows that is ascending in timestamp is a result.
SortValues(d) ==
    {Reorder(d, p) : p \in {q \in Perms(Len(d.rows)) : IsSortedByTime(Reorder(d, q).rows)}}

\* Lines 53-71 of fetch_data on the collected items: the frames it can
\* return, each with whether the except clause ran (st.error shown).
NormalizeOutcomes(items) ==
    IF items = <<>>
    THEN {[df |-> EmptyWithColumns, raised |-> FALSE]}
    ELSE LET d0 == DataFrameOf(items)
         IN  IF ~(SevenFields \subseteq d0.columns)
             THEN {[df |-> EmptyDataFrame, raised |-> TRUE]}
             ELSE {[df |-> d, raised |-> FALSE] :
                      d \in SortValues(DropNa(ApplyToDatetime(ApplyToNumeric(d0))))}

\* df.empty
IsEmpty(d) == d.columns = {} \/ d.rows = <<>>

\* A latest reading taken from the front of the frame.
ILocFirst(d) == d.rows[1]

\* df.iloc[-1]
ILocLast(d) == d.rows[Len(d.rows)]


(* ------------------------------ state ----------------------------------- *)
VARIABLES
    table,          \* the remote table as the pages a full scan returns
    session,        \* st.cache_resource entry of get_dynamodb_session
    cache,          \* st.cache_data entry of fetch_data
    now,            \* the clock, in seconds
    pc,             \* where the script run is
    view_mode,      \* the sidebar radio
    event,          \* the button whose click started this run
    user_input,     \* the text_input of the Chat view
    response,       \* fetch_data: the last scan response
    items,          \* fetch_data: the items collected so far
    fetched,        \* the pages the current fetch_data call has scanned
    df,             \* the frame fetch_data returned to the view
    hit,            \* whether that frame was served from the cache
    outcome,        \* the path the call that computed that frame took
    errors,         \* st.error boxes and uncaught exceptions on the page
    warning,        \* st.warning box on the page
    latest_data,    \* the row read by df.iloc[-1], if one was read
    chat_history,   \* st.session_state["chat_history"]
    initial_interpretation  \* st.session_state["initial_interpretation"]

vars ==
    <<table, session, cache, now, pc, view_mode, event, user_input, response,
      items, fetched, df, hit, outcome, errors, warning, latest_data,
      chat_history, initial_interpretation>>

fetchVars == <<response, items, fetched>>
pageVars == <<errors, warning, latest_data>>
chatVars == <<chat_history, initial_interpretation>>

(* --------------------------- the raw records ---------------------------- *)
\* A well-formed record of the table: numbers for the six sensor fields and
\* an ISO text for the timestamp.
ValidRecord(date) ==
    [f \in SevenFields |-> IF f = "timestamp" THEN Text(date) ELSE Num(5)]

\* The record with key k removed.
Without(rec, k) == [f \in (DOMAIN rec) \ {k} |-> rec[f]]

\* The record with key k set to v (added when absent).
With(rec, k, v) == [f \in (DOMAIN rec) \cup {k} |-> IF f = k THEN v ELSE rec[f]]

Dates == DOMAIN DateText

\* One field of a valid record changed in one way: "text" a numeric text
\* (still convertible), "garbage" a text no parser accepts, "null" a
\* DynamoDB null, "absent" the key missing.
Vary(rec, f, how) ==
    CASE how = "text" -> With(rec, f, IF f = "timestamp" THEN rec[f] ELSE Text("7"))
      [] how = "garbage" -> With(rec, f, Text("n/a"))
      [] how = "null" -> With(rec, f, Null)
      [] how = "absent" -> Without(rec, f)

\* An additional attribute beyond the seven: present, null, or not there.
WithExtra(rec, x) ==
    CASE x = "present" -> With(rec, "device_id", Text("dev-1"))
      [] x = "null" -> With(rec, "device_id", Null)
      [] x = "none" -> rec

RawRecords ==
    {WithExtra(r, x) :
        r \in {ValidRecord(d) : d \in Dates}
              \cup {Vary(ValidRecord(d), f, how) :
                       d \in Dates, f \in SevenFields,
                       how \in {"text", "garbage", "null", "absent"}},
        x \in {"present", "null", "none"}}

\* The records the paginated table of the whole-program specification holds.
TableRecords ==
    {ValidRecord("2024-01-02T00:00:00"), ValidRecord("2024-01-01T00:00:00"),
     Vary(ValidRecord("2024-01-01T00:00:00"), "humidity", "absent")}

SeqsUpTo(S, n) == UNION {[1..k -> S] : k \in 0..n}

\* The elements m..n of b (none when n < m).
Slice(b, m, n) == [i \in 1..(n - m + 1) |-> b[m + i - 1]]

\* The batch b cut into Len(cuts) + 1 consecutive pages after the positions
\* cuts[1] <= cuts[2] <= ...; a page may be empty.
Paginate(b, cuts) ==
    [j \in 1..(Len(cuts) + 1) |->
        Slice(b, (IF j = 1 THEN 0 ELSE cuts[j - 1]) + 1,
                 IF j = Len(cuts) + 1 THEN Len(b) ELSE cuts[j])]

Cuts(n, pages) ==
    {c \in SeqsUpTo(0..n, pages - 1) : \A j \in 1..Len(c) : (j > 1 => c[j - 1] <= c[j])}

\* Every way a scan can page up to n records into up to `pages` pages.
Tables(n, pages) ==
    UNION {{Paginate(b, c) : c \in Cuts(Len(b), pages)} : b \in SeqsUpTo(TableRecords, n)}

(* ------------------------------ helpers --------------------------------- *)
TTL == 60

NoResponse == [Items |-> <<>>, LastEvaluatedKey |-> 0]

NoEntry == [valid |-> FALSE, value |-> EmptyDataFrame, computed_at |-> 0, errors |-> {}]

\* The freshness test of the cache with the bound included.
FreshInclusive(entry, t) == entry.valid /\ (t - entry.computed_at) <= TTL

\* @st.cache_data(ttl=60): an entry is served while younger than ttl.
Fresh(entry, t) == entry.valid /\ (t - entry.computed_at) < TTL

\* table.scan(ExclusiveStartKey=start), start = 0 for the first call: the
\* page after `start`, with LastEvaluatedKey (0 when the response has none)
\* naming that page while more pages follow.
Scan(start) ==
    [Items |-> table[start + 1],
     LastEvaluatedKey |-> IF start + 1 < Len(table) THEN start + 1 ELSE 0]

\* An extend that drops the page.
ExtendDropped(list, more) == list

\* items.extend(response.get('Items', []))
Extend(list, more) == list \o more

RECURSIVE Flatten(_)
Flatten(pages) ==
    IF pages = <<>> THEN <<>> ELSE Head(pages) \o Flatten(Tail(pages))

\* fetch_data returns `value`: st.cache_data stores it, with the st.error
\* boxes the call drew, and the view goes on with it.
Return(value, path, drawn) ==
    /\ df' = value
    /\ hit' = FALSE
    /\ outcome' = path
    /\ cache' = [valid |-> TRUE, value |-> value, computed_at |-> now, errors |-> drawn]
    /\ errors' = errors \cup drawn
    /\ pc' = "render"

(* ------------------------------ Init ------------------------------------ *)
Blank ==
    /\ session = "unset"
    /\ cache = NoEntry
    /\ now = 0
    /\ event = "none"
    /\ user_input = ""
    /\ response = NoResponse
    /\ items = <<>>
    /\ fetched = <<>>
    /\ df = EmptyDataFrame
    /\ hit = FALSE
    /\ outcome = "none"
    /\ errors = {}
    /\ warning = ""
    /\ latest_data = <<>>
    /\ chat_history = <<>>
    /\ initial_interpretation = ""

Init ==
    /\ table \in Tables(MaxItems, MaxPages)
    /\ pc = "idle"
    /\ view_mode = "none"
    /\ Blank

(* ----------------------------- actions ---------------------------------- *)
\* A script run starts from the top: the page is cleared.
StartRun ==
    /\ pc' = "fetch"
    /\ df' = EmptyDataFrame
    /\ hit' = FALSE
    /\ errors' = {}
    /\ warning' = ""
    /\ latest_data' = <<>>
    /\ response' = NoResponse
    /\ items' = <<>>
    /\ fetched' = <<>>

\* The user picks a view in the sidebar (line 99); no button is pressed.
Rerun(view) ==
    /\ pc = "idle"
    /\ view_mode' = view
    /\ event' = "none"
    /\ StartRun
    /\ UNCHANGED <<table, session, cache, now, user_input, outcome, chatVars>>

\* Time passes between script runs.
Tick ==
    /\ pc = "idle"
    /\ now + TickStep <= MaxTicks * TickStep
    /\ now' = now + TickStep
    /\ UNCHANGED <<table, session, cache, pc, view_mode, event, user_input,
                   fetchVars, df, hit, outcome, pageVars, chatVars>>

\* fetch_data() while the cached entry is fresh: the decorator returns the
\* stored frame and redraws the stored st.error boxes; the body does not run.
FetchHit ==
    /\ pc = "fetch"
    /\ Fresh(cache, now)
    /\ df' = cache.value
    /\ hit' = TRUE
    /\ errors' = errors \cup cache.errors
    /\ pc' = "render"
    /\ UNCHANGED <<table, session, cache, now, view_mode, event, user_input,
                   fetchVars, outcome, warning, latest_data, chatVars>>

\* fetch_data() with no fresh entry: the body runs. Lines 37-44:
\* get_dynamodb_session() gives the cached session, or builds it (a Session,
\* or None after a credentials error, or an uncaught error reading
\* st.secrets, which ends the script run); without a session an empty frame is
\* returned.
FetchMiss ==
    /\ pc = "fetch"
    /\ ~Fresh(cache, now)
    /\ \E got \in (IF session = "unset" THEN {"ok", "none", "raise"} ELSE {session}) :
        CASE got = "ok" ->
                /\ session' = "ok"
                /\ pc' = "scan"
                /\ UNCHANGED <<cache, df, hit, outcome, errors>>
          [] got = "none" ->
                /\ session' = "none"
                /\ Return(EmptyDataFrame, "no_session",
                          IF session = "unset" THEN {"credentials"} ELSE {})
          [] got = "raise" ->
                /\ session' = "unset"
                /\ pc' = "idle"
                /\ errors' = errors \cup {"uncaught_aws_secrets"}
                /\ UNCHANGED <<cache, df, hit, outcome>>
    /\ UNCHANGED <<table, now, view_mode, event, user_input, fetchVars,
                   warning, latest_data, chatVars>>

\* Lines 69-71: a scan raised; st.error, and an empty frame is returned.
ScanRaises ==
    /\ Return(EmptyDataFrame, "scan_error", {"fetch"})
    /\ UNCHANGED <<table, session, now, view_mode, event, user_input, fetchVars,
                   warning, latest_data, chatVars>>

\* Lines 47-48: the first scan, which may raise.
ScanFirst ==
    /\ pc = "scan"
    /\ fetched = <<>>
    /\ \E ok \in BOOLEAN :
        IF ok
        THEN /\ response' = Scan(0)
             /\ items' = Extend(items, Scan(0).Items)
             /\ fetched' = <<1>>
             /\ UNCHANGED <<table, session, cache, now, pc, view_mode, event,
                            user_input, df, hit, outcome, pageVars, chatVars>>
        ELSE ScanRaises

\* Lines 49-51: one turn of the while loop, which may raise.
ScanNext ==
    /\ pc = "scan"
    /\ fetched # <<>>
    /\ response.LastEvaluatedKey # 0
    /\ \E ok \in BOOLEAN :
        IF ok
        THEN /\ response' = Scan(response.LastEvaluatedKey)
             /\ items' = Extend(items, Scan(response.LastEvaluatedKey).Items)
             /\ fetched' = Append(fetched, response.LastEvaluatedKey + 1)
             /\ UNCHANGED <<table, session, cache, now, pc, view_mode, event,
                            user_input, df, hit, outcome, pageVars, chatVars>>
        ELSE ScanRaises

\* Lines 53-71 once the loop has ended: the frame is built, cleaned and
\* sorted, or the except clause returns an empty one.
Normalize ==
    /\ pc = "scan"
    /\ fetched # <<>>
    /\ response.LastEvaluatedKey = 0
    /\ \E r \in NormalizeOutcomes(items) :
        Return(r.df, IF r.raised THEN "key_error" ELSE "ok",
               IF r.raised THEN {"fetch"} ELSE {})
    /\ UNCHANGED <<table, session, now, view_mode, event, user_input, fetchVars,
                   warning, latest_data, chatVars>>

\* Lines 104-132.
RenderDashboard ==
    /\ pc = "render"
    /\ view_mode = "Dashboard"
    /\ IF IsEmpty(df)
       THEN /\ warning' = "No data available"
            /\ latest_data' = <<>>
       ELSE /\ warning' = ""
            /\ latest_data' = <<ILocLast(df)>>
    /\ pc' = "idle"
    /\ UNCHANGED <<table, session, cache, now, view_mode, event, user_input,
                   fetchVars, df, hit, outcome, errors, chatVars>>


\* interpret_data (lines 76-94): the text it returns (the generated text or
\* its default, an API error text from either error path, the timeout
\* text), or Raised when st.secrets has no huggingface token: line 78 is
\* outside the try block, so that error leaves the coroutine.
Raised == "<raised>"

InterpretReturns ==
    {"generated_text", "No response received.", "API Error", "Request timed out. Try again."}

InterpretData == InterpretReturns \cup {Raised}

Questions == {"", "Should I irrigate?"}

\* Lines 137-188. One button at most was clicked for this run, so
\* interpret_data is called at most once; r is what that call does.
RenderChat ==
    /\ pc = "render"
    /\ view_mode = "Chat"
    /\ \E r \in InterpretData :
        LET asked == event = "initial" /\ ~IsEmpty(df)
            sent == event = "send" /\ user_input # ""
            shown == IF IsEmpty(df) THEN "No sensor data available" ELSE ""
            read == IF IsEmpty(df) THEN <<>> ELSE <<ILocLast(df)>>
            withUser == Append(chat_history, <<"User", user_input>>)
        IN  \* only the run that calls interpret_data depends on r
            /\ (asked \/ sent) \/ r = "generated_text"
            /\ IF asked /\ r = Raised
               THEN \* line 164 raises: the run ends before the chat interface
                    /\ warning' = shown
                    /\ latest_data' = read
                    /\ errors' = errors \cup {"uncaught_hf_secrets"}
                    /\ pc' = "idle"
                    /\ UNCHANGED <<chatVars, df, hit, fetchVars, event>>
               ELSE IF sent /\ r = Raised
               THEN \* line 180 raises after line 178 has appended
                    /\ warning' = shown
                    /\ latest_data' = read
                    /\ errors' = errors \cup {"uncaught_hf_secrets"}
                    /\ chat_history' = withUser
                    /\ pc' = "idle"
                    /\ UNCHANGED <<initial_interpretation, df, hit, fetchVars, event>>
               ELSE IF sent
               THEN \* lines 178-182: both entries appended, then st.rerun()
                    /\ chat_history' = Append(withUser, <<"LLM", r>>)
                    /\ event' = "none"
                    /\ StartRun
                    /\ UNCHANGED initial_interpretation
               ELSE /\ warning' = shown
                    /\ latest_data' = read
                    /\ initial_interpretation' = IF asked THEN r ELSE initial_interpretation
                    /\ pc' = "idle"
                    /\ UNCHANGED <<chat_history, errors, df, hit, fetchVars, event>>
    /\ UNCHANGED <<table, session, cache, now, view_mode, user_input, outcome>>

\* The "Get Initial Interpretation" button (line 162) is on the page when
\* the last Chat run read a latest reading.
PressInitial ==
    /\ pc = "idle"
    /\ view_mode = "Chat"
    /\ latest_data # <<>>
    /\ event' = "initial"
    /\ StartRun
    /\ UNCHANGED <<table, session, cache, now, view_mode, user_input, outcome, chatVars>>

\* The Send button (line 176) is on the page when the last Chat run got as
\* far as the chat interface.
SendDrawn ==
    /\ view_mode = "Chat"
    /\ "uncaught_aws_secrets" \notin errors
    /\ ~(event = "initial" /\ "uncaught_hf_secrets" \in errors)

\* The user leaves `text` in the text_input (line 175) and clicks Send.
PressSend(text) ==
    /\ pc = "idle"
    /\ SendDrawn
    /\ Len(chat_history) + 2 <= MaxHistory
    /\ user_input' = text
    /\ event' = "send"
    /\ StartRun
    /\ UNCHANGED <<table, session, cache, now, view_mode, outcome, chatVars>>

(* -------------------------- specifications ------------------------------ *)
Views == {"Dashboard", "Chat"}

FetchStep == FetchHit \/ FetchMiss \/ ScanFirst \/ ScanNext \/ Normalize

Next ==
    \/ \E v \in Views : Rerun(v)
    \/ Tick
    \/ FetchStep
    \/ RenderDashboard
    \/ RenderChat

\* The page with its data path and the clock; no button is clicked.
Spec == Init /\ [][Next]_vars

ScanNextRel ==
    \/ Rerun("Dashboard")
    \/ FetchStep
    \/ RenderDashboard

\* The data path alone, the clock standing still. fetch_data is sequential
\* code: while it is in its scan loop, the next scan call is made.
ScanSpec ==
    /\ Init
    /\ [][ScanNextRel]_vars
    /\ WF_vars(ScanFirst \/ ScanNext)

ChatNext ==
    \/ \E v \in Views : Rerun(v)
    \/ PressInitial
    \/ \E q \in Questions : PressSend(q)
    \/ FetchStep
    \/ RenderDashboard
    \/ RenderChat

\* The tables the Chat view is exercised on: one with readings on two
\* pages, one empty.
ChatTables ==
    {<<<<ValidRecord("2024-01-02T00:00:00")>>, <<ValidRecord("2024-01-01T00:00:00")>>>>,
     <<<<>>>>}

ChatInit ==
    /\ table \in ChatTables
    /\ pc = "idle"
    /\ view_mode = "none"
    /\ Blank

\* The page with its buttons, the clock standing still.
ChatSpec == ChatInit /\ [][ChatNext]_vars

\* The batches normalization is checked on: up to n records, of
\* which one may be any record of RawRecords and the others are records of
\* CoreRecords.
CoreRecords == TableRecords

InsertAt(b, i, r) == Slice(b, 1, i - 1) \o <<r>> \o Slice(b, i, Len(b))

Batches(n) ==
    SeqsUpTo(CoreRecords, n)
    \cup UNION {{InsertAt(b, i, r) : i \in 1..(Len(b) + 1), r \in RawRecords} :
                  b \in SeqsUpTo(CoreRecords, n - 1)}

\* fetch_data has just collected a one-page table: lines 47-51 are done.
NormInit ==
    /\ \E b \in Batches(MaxRecords) :
        /\ table = <<b>>
        /\ items = b
        /\ response = [Items |-> b, LastEvaluatedKey |-> 0]
    /\ fetched = <<1>>
    /\ pc = "scan"
    /\ view_mode \in Views
    /\ session = "ok"
    /\ cache = NoEntry
    /\ now = 0
    /\ event = "none"
    /\ user_input = ""
    /\ df = EmptyDataFrame
    /\ hit = FALSE
    /\ outcome = "none"
    /\ errors = {}
    /\ warning = ""
    /\ latest_data = <<>>
    /\ chat_history = <<>>
    /\ initial_interpretation = ""

NormNext == Normalize \/ RenderDashboard \/ RenderChat

\* Normalization and the two views over every batch of Batches.
NormSpec == NormInit /\ [][NormNext]_vars


(* ------------------------------ claims ---------------------------------- *)
\* fetch_data has just computed df from items (no cached frame involved).
Computed == pc = "render" /\ ~hit

\* What the specification calls a failed conversion, read off the raw
\* record: a field that is absent or null, a sensor field holding a text
\* that is no number, a timestamp that is no readable date.
FailsConversion(rec) ==
    \E f \in SevenFields :
        \/ f \notin DOMAIN rec
        \/ rec[f].kind = "NULL"
        \/ f # "timestamp" /\ rec[f].kind = "S" /\ rec[f].text \notin {"7", "8"}
        \/ f = "timestamp"
           /\ ~(rec[f].kind = "S"
                /\ rec[f].text \in {"2024-01-01T00:00:00", "2024-01-02T00:00:00"})

\* The positions in df of the input record at position i of items.
RowsOf(i) == {k \in 1..Len(df.rows) : df.rows[k].idx = i - 1}

\* C1: a record with a failed conversion in any of the seven fields is not
\* in the frame fetch_data returns, and every row of that frame holds a
\* float in each sensor column and a Timestamp in the timestamp column.
C1_FailedRecordExcluded ==
    Computed =>
        \A k \in 1..Len(df.rows) :
            /\ ~FailsConversion(items[df.rows[k].idx + 1])
            /\ \A f \in SevenFields :
                /\ f \in df.columns
                /\ df.rows[k].cells[f].kind = (IF f = "timestamp" THEN "T" ELSE "F")

\* C1 witness: a batch with a failing record and a good one was normalized
\* and only part of it came out.
C1_Witness ==
    /\ Computed
    /\ outcome = "ok"
    /\ \E i \in 1..Len(items) : FailsConversion(items[i])
    /\ Len(df.rows) >= 1
    /\ Len(df.rows) < Len(items)

\* C2: every record whose seven fields all convert is in the returned frame
\* exactly once, whatever else the batch holds and whatever additional
\* fields records carry or lack.
C2_ValidRecordKeptOnce ==
    Computed =>
        \A i \in 1..Len(items) :
            ~FailsConversion(items[i]) => Cardinality(RowsOf(i)) = 1

\* C3: the returned frame is sorted non-decreasing by timestamp.
C3_SortedByTimestamp ==
    pc = "render" =>
        \A k \in 1..(Len(df.rows) - 1) :
            /\ df.rows[k].cells["timestamp"].kind = "T"
            /\ df.rows[k + 1].cells["timestamp"].kind = "T"
            /\ df.rows[k].cells["timestamp"].num <= df.rows[k + 1].cells["timestamp"].num

\* C3 witness: two records that arrived later-date-first both came out.
C3_Witness ==
    /\ Computed
    /\ Len(df.rows) >= 2
    /\ \E k \in 1..(Len(df.rows) - 1) :
        /\ df.rows[k].idx > df.rows[k + 1].idx
        /\ df.rows[k].cells["timestamp"].num < df.rows[k + 1].cells["timestamp"].num

\* C4: valid records sharing a timestamp are all in the returned frame and
\* keep the relative order they had in the input.
C4_TiesKeptInInputOrder ==
    Computed =>
        /\ \A i, j \in 1..Len(items) :
            (/\ i # j
             /\ ~FailsConversion(items[i])
             /\ ~FailsConversion(items[j])
             /\ items[i]["timestamp"] = items[j]["timestamp"])
            => (RowsOf(i) # {} /\ RowsOf(j) # {})
        /\ \A k, l \in 1..Len(df.rows) :
            (k < l /\ RowTime(df.rows[k]) = RowTime(df.rows[l]))
            => df.rows[k].idx < df.rows[l].idx

\* C5: with a session and a scan that succeeded, fetch_data reports no
\* error whatever the records hold: no st.error box is drawn.
C5_NoErrorReported ==
    (Computed /\ outcome \notin {"no_session", "scan_error"}) => errors = {}

\* The script ran to the end of the view's data section.
Rendered == pc = "idle" /\ view_mode # "none" /\ "uncaught_aws_secrets" \notin errors

\* C6: after a fetch that failed (no session, a scan that raised) the view
\* does not show its no-data warning.
C6_FailureNotShownAsNoData ==
    (Rendered /\ outcome \in {"no_session", "scan_error"}) => warning = ""

\* C7: a latest reading is read only from a non-empty frame, it is the
\* frame's last row and no row has a later timestamp; over an empty frame
\* the view reads no latest reading and shows its warning.
C7_LatestIsLastAndNewest ==
    /\ latest_data # <<>> =>
        /\ ~IsEmpty(df)
        /\ latest_data[1] = df.rows[Len(df.rows)]
        /\ \A k \in 1..Len(df.rows) :
            df.rows[k].cells["timestamp"].num <= latest_data[1].cells["timestamp"].num
    /\ (Rendered /\ IsEmpty(df)) => (latest_data = <<>> /\ warning # "")

\* C7 witness: a view showed the latest reading of a frame whose first row
\* is older.
C7_Witness ==
    /\ pc = "idle"
    /\ latest_data # <<>>
    /\ Len(df.rows) >= 2
    /\ df.rows[1].cells["timestamp"].num < latest_data[1].cells["timestamp"].num

ScanInv ==
    pc = "scan" =>
        /\ \A n \in 1..Len(fetched) : fetched[n] = n
        /\ Len(fetched) <= Len(table)
        /\ items = Flatten([n \in 1..Len(fetched) |-> table[n]])
        /\ fetched # <<>> =>
            /\ (response.LastEvaluatedKey # 0) = (Len(fetched) < Len(table))
            /\ response.LastEvaluatedKey # 0 => response.LastEvaluatedKey = Len(fetched)

\* A scan after the first is made only on a response that carries a key,
\* and asks for the page after that key.
FollowUp ==
    (pc = "scan" /\ fetched # <<>> /\ fetched' # fetched /\ fetched' # <<>>)
    => (/\ response.LastEvaluatedKey # 0
        /\ fetched' = Append(fetched, response.LastEvaluatedKey + 1))

\* The while loop of lines 49-51 is over: a response without a key has
\* arrived, or a scan raised and fetch_data has returned.
LoopEnded == pc # "scan" \/ (fetched # <<>> /\ response.LastEvaluatedKey = 0)

\* C9: the scan loop asks for the next page exactly while the response
\* carries LastEvaluatedKey, collects the pages in order, each once, and
\* ends.
C9_PaginatedScan ==
    /\ []ScanInv
    /\ [][FollowUp]_vars
    /\ (pc = "scan") ~> LoopEnded

\* C9 witness: the loop has ended after more than one page.
C9_Witness ==
    /\ pc = "scan"
    /\ Len(fetched) >= 2
    /\ response.LastEvaluatedKey = 0
    /\ Len(items) >= 2

\* C10: the chat history is a list of pairs: a "User" entry followed by
\* an "LLM" entry, so its length is even.
C10_HistoryInPairs ==
    /\ Len(chat_history) % 2 = 0
    /\ \A n \in 1..Len(chat_history) :
        chat_history[n][1] = (IF n % 2 = 1 THEN "User" ELSE "LLM")

====
